---- MODULE Spec2Model ----
(***************************************************************************)
(* Lifecycle of the ZEO storage server start script (ZEO/runzeo.py):       *)
(* ZEOServer.main and the methods it calls, the signal handlers, and the   *)
(* address (socket file / listening socket) the server instances share.    *)
(***************************************************************************)
EXTENDS Integers, Sequences, FiniteSets, TLC

\* Largest number of storage specs in one options record.
MaxStorages == 3

\* Server instances started against one address; "peer" is a foreign server.
Procs == {"p1", "p2"}

\* Signal numbers of the platform, each written as one of its symbolic names.
Signals == {"SIGTERM", "SIGINT", "SIGUSR2", "SIGHUP", "SIGXFSZ", "SIGIO"}

\* Signals whose delivery asks the server to stop.
TermSignals == {"SIGTERM", "SIGINT"}

\* The statements of main's try body, in order (runzeo.py 123-126).
TryBody == {"open_storages", "open_loop", "setup_signals", "create_server", "loop_forever"}

VARIABLES
    family,       \* options.family: "AF_UNIX" (address is a path string) or "AF_INET"
    osname,       \* os.name
    sockfile,     \* what the path of the address refers to: "none", "stale", or the owner of the bound socket
    listeners,    \* owners of a live listening socket on the address
    options,      \* options[p].storages as the sequence of the openers' names
    pc,           \* the method of ZEOServer that main is executing
    has_storages, \* whether the attribute self.storages has been assigned
    storages,     \* self.storages: name -> handle (the index of the opener that returned it)
    opened,       \* handles returned by opener.open()
    closeCalls,   \* handle -> number of close() invocations
    todo,         \* items of self.storages.items() not yet visited by close_storages
    cur,          \* the name bound by the current iteration of close_storages
    closeSeq,     \* iterations of close_storages so far: [name, raised]
    exc,          \* the exception in flight while the finally clause runs
    outcome,      \* how the process ended: "running", "returned", an exception, or "killed"
    disp,         \* signal dispositions of the process
    log,          \* records written through zLOG
    calls,        \* methods main has called, in order
    delivered,    \* termination signals delivered: <<signal, pc at delivery>>
    methods,      \* names of the handle_<signal> methods of the server object's class
    sigdict,      \* the names of signal.__dict__ in the order its items() yields them
    signames,     \* the module global signames: signal number -> symbolic name
    builds,       \* number of executions of init_signames
    argv,         \* number of -f arguments of the command line not yet handled
    dropped       \* errors caught and passed over without a log record: <<method, error>>

vars == <<family, osname, sockfile, listeners, options, pc, has_storages, storages,
          opened, closeCalls, todo, cur, closeSeq, exc, outcome, disp, log, calls,
          delivered, methods, sigdict, signames, builds, argv, dropped>>

----------------------------------------------------------------------------
\* Pure helpers

Range(s) == {s[i] : i \in 1..Len(s)}

Count(x, s) == Cardinality({i \in 1..Len(s) : s[i] = x})

Digits == <<"0", "1", "2", "3", "4", "5", "6", "7", "8", "9">>

RECURSIVE str(_)
str(n) == IF n < 10 THEN Digits[n + 1] ELSE str(n \div 10) \o Digits[(n % 10) + 1]

\* Variant of handle_filename: the opener is named by the number of storages
\* before it.
handle_filename_zero_based(names) == Append(names, str(Len(names)))

\* handle_filename: the i-th -f option appends an opener named str(1 + len(storages)).
handle_filename(names) == Append(names, str(1 + Len(names)))

RECURSIVE FileOptions(_)
FileOptions(n) == IF n = 0 THEN <<>> ELSE handle_filename(FileOptions(n - 1))

OptionChoices == {FileOptions(n) : n \in 1..MaxStorages}

\* Log records: <<severity, message, argument, error context>>.
info(msg, arg) == <<"INFO", msg, arg, "">>

exception(msg, arg) == <<"ERROR", msg, arg, "exc_info">>

\* Process exit status for an outcome of main.
ExitStatus(o) ==
    CASE o \in {"returned", "SystemExit0"} -> 0
      [] o = "SystemExit2" -> 2
      [] o = "killed" -> 128
      [] OTHER -> 1

EmptyRegistry == [n \in {} |-> 0]

InitialDisp == [s \in Signals |-> IF s = "SIGINT" THEN "default_int_handler" ELSE "SIG_DFL"]

\* Methods of ZEOServer named handle_<signal>.
HandlerMethods == {"handle_sigterm", "handle_sigint", "handle_sigusr2"}

\* Handler methods of the server classes: ZEOServer, and servers that reuse it
\* and define one more handler.
ServerClasses ==
    {HandlerMethods} \cup
    {HandlerMethods \cup {m} : m \in {"handle_sigio", "handle_sigpoll", "handle_sigxfsz"}}

\* Names of the signal module (signal.__dict__); SIGPOLL is a second name of
\* the number of SIGIO.
SignalModule == Signals \cup {"SIGPOLL", "SIG_IGN", "SIG_DFL"}

\* The value of a signal name in the signal module: its number.
Number(name) == IF name = "SIGPOLL" THEN "SIGIO" ELSE name

Lower(name) ==
    CASE name = "SIGTERM" -> "sigterm"
      [] name = "SIGINT" -> "sigint"
      [] name = "SIGUSR2" -> "sigusr2"
      [] name = "SIGHUP" -> "sighup"
      [] name = "SIGXFSZ" -> "sigxfsz"
      [] name = "SIGIO" -> "sigio"
      [] name = "SIGPOLL" -> "sigpoll"
      [] OTHER -> name

\* The names that pass the filter of init_signames: they start with SIG but
\* not with SIG_.
SigNames == SignalModule \ {"SIG_IGN", "SIG_DFL"}

\* The module global signames before init_signames has run (None).
NoTable == [s \in {} |-> ""]

\* The orders in which a build's signal.__dict__ yields its items: the two
\* names of one number come in either order.
DictOrders ==
    {<<"SIG_DFL", "SIGHUP", "SIGINT", "SIGIO", "SIGPOLL", "SIGTERM", "SIGUSR2",
       "SIGXFSZ", "SIG_IGN">>,
     <<"SIG_DFL", "SIGHUP", "SIGINT", "SIGPOLL", "SIGIO", "SIGTERM", "SIGUSR2",
       "SIGXFSZ", "SIG_IGN">>}

\* The order of one build.  ZEOServer has no handler named after a signal
\* with two names, so what it installs is the same for every order.
OneOrder == CHOOSE d \in DictOrders : TRUE

\* init_signames: signames[sig] = name for each item of signal.__dict__ whose
\* name passes the filter, in the order of items; of the names of one number
\* the last one assigned stays.
init_signames(items) ==
    [s \in Signals |->
        LET idx == {i \in 1..Len(items) : items[i] \in SigNames /\ Number(items[i]) = s}
        IN items[CHOOSE i \in idx : \A j \in idx : j <= i]]

----------------------------------------------------------------------------
\* The address

\* can_connect: connect() succeeds when a live socket accepts on the address.
can_connect ==
    IF family = "AF_UNIX" THEN sockfile \in listeners ELSE listeners # {}

\* bind() of the StorageServer's listening socket succeeds.
CanBind ==
    IF family = "AF_UNIX" THEN sockfile = "none" ELSE listeners = {}

----------------------------------------------------------------------------
\* Control transfer

\* The process ends with outcome o; its listening socket goes with it.
Exit(p, o) ==
    /\ pc' = [pc EXCEPT ![p] = "done"]
    /\ outcome' = [outcome EXCEPT ![p] = o]
    /\ listeners' = listeners \ {p}

\* The try body is left with exception e ("none": normally); the finally clause starts.
\* main calls close_storages; made is what the step leaving the try body called.
EnterFinally(p, e, made) ==
    /\ pc' = [pc EXCEPT ![p] = "close_storages"]
    /\ exc' = [exc EXCEPT ![p] = e]
    /\ todo' = [todo EXCEPT ![p] = IF has_storages[p] THEN DOMAIN storages[p] ELSE {}]
    /\ calls' = [calls EXCEPT ![p] = @ \o made \o <<"close_storages">>]

----------------------------------------------------------------------------
\* An exception e is raised at the point where main is (by a signal handler
\* or by the default SIGINT action), after the records lg were logged.
\* Variant of RaiseAt: an exception raised by a handler inside the try body
\* ends the process without running the finally clause.
RaiseAt_no_finally(p, e, lg, inside) ==
    CASE pc[p] = "close_try" ->
            /\ closeCalls' = [closeCalls EXCEPT ![p][storages[p][cur[p]]] = @ + 1]
            /\ closeSeq' = [closeSeq EXCEPT ![p] = Append(@, [name |-> cur[p], raised |-> TRUE])]
            /\ log' = [log EXCEPT ![p] =
                          @ \cup lg \cup {exception("failed to close storage", cur[p])}]
            /\ pc' = [pc EXCEPT ![p] = "close_storages"]
            /\ cur' = [cur EXCEPT ![p] = ""]
            /\ UNCHANGED <<outcome, listeners, exc, todo, calls>>
      [] OTHER ->
            /\ Exit(p, e)
            /\ log' = [log EXCEPT ![p] = @ \cup lg]
            /\ UNCHANGED <<exc, todo, cur, closeCalls, closeSeq, calls>>

\* inside: whether the try statement has been entered when pc is at its first statement.
RaiseAt(p, e, lg, inside) ==
    CASE pc[p] \in TryBody /\ (pc[p] = "open_storages" => inside) ->
            \* inside try: the finally clause runs with e in flight
            /\ EnterFinally(p, e, <<>>)
            /\ log' = [log EXCEPT ![p] = @ \cup lg]
            /\ UNCHANGED <<outcome, listeners, cur, closeCalls, closeSeq>>
      [] pc[p] = "close_try" ->
            \* inside the try of close_storages: the bare except catches e,
            \* whether or not storage.close() had been invoked yet
            /\ \E invoked \in BOOLEAN :
                   closeCalls' = [closeCalls EXCEPT ![p][storages[p][cur[p]]] =
                                      IF invoked THEN @ + 1 ELSE @]
            /\ closeSeq' = [closeSeq EXCEPT ![p] = Append(@, [name |-> cur[p], raised |-> TRUE])]
            /\ log' = [log EXCEPT ![p] =
                          @ \cup lg \cup {exception("failed to close storage", cur[p])}]
            /\ pc' = [pc EXCEPT ![p] = "close_storages"]
            /\ cur' = [cur EXCEPT ![p] = ""]
            /\ UNCHANGED <<outcome, listeners, exc, todo, calls>>
      [] OTHER ->
            \* outside any try statement: e leaves main
            /\ Exit(p, e)
            /\ log' = [log EXCEPT ![p] = @ \cup lg]
            /\ UNCHANGED <<exc, todo, cur, closeCalls, closeSeq, calls>>

Raise(p, e, lg) == \E inside \in BOOLEAN : RaiseAt(p, e, lg, inside)

----------------------------------------------------------------------------
\* ZEOServer.main, one action per method it calls

\* Variant of check_socket: the probe is made but its result is not acted on.
check_socket_no_abort(p) ==
    /\ pc[p] = "check_socket"
    /\ \E created \in BOOLEAN :
          IF ~created
          THEN Exit(p, "socket.error")
          ELSE /\ pc' = [pc EXCEPT ![p] = "clear_socket"]
               /\ UNCHANGED <<outcome, listeners>>
    /\ calls' = [calls EXCEPT ![p] = Append(@, "check_socket")]
    /\ UNCHANGED <<family, osname, sockfile, options, has_storages, storages, opened,
                   closeCalls, todo, cur, closeSeq, exc, disp, log, delivered, methods,
                   sigdict, signames, builds, argv, dropped>>

\* ZEOOptions.realize: each -f argument of the command line is passed to
\* handle_filename, in order; without storages the usage error ends the process.
realize(p) ==
    /\ pc[p] = "realize"
    /\ IF argv[p] > 0
       THEN /\ options' = [options EXCEPT ![p] = handle_filename(@)]
            /\ argv' = [argv EXCEPT ![p] = @ - 1]
            /\ UNCHANGED <<pc, outcome, listeners>>
       ELSE /\ IF options[p] = <<>>
               THEN \* "no storages specified; use -f or -C"
                    Exit(p, "SystemExit2")
               ELSE /\ pc' = [pc EXCEPT ![p] = "check_socket"]
                    /\ UNCHANGED <<outcome, listeners>>
            /\ UNCHANGED <<options, argv>>
    /\ UNCHANGED <<family, osname, sockfile, has_storages, storages, opened, closeCalls,
                   todo, cur, closeSeq, exc, disp, log, calls, delivered, methods, sigdict,
                   signames, builds, dropped>>

check_socket(p) ==
    /\ pc[p] = "check_socket"
    /\ \E created \in BOOLEAN :
          IF ~created
          THEN \* socket.socket() raises outside the try of can_connect
               Exit(p, "socket.error")
          ELSE IF can_connect
          THEN \* options.usage(): message and SystemExit(2)
               Exit(p, "SystemExit2")
          ELSE /\ pc' = [pc EXCEPT ![p] = "clear_socket"]
               /\ UNCHANGED <<outcome, listeners>>
    /\ calls' = [calls EXCEPT ![p] = Append(@, "check_socket")]
    /\ UNCHANGED <<family, osname, sockfile, options, has_storages, storages, opened,
                   closeCalls, todo, cur, closeSeq, exc, disp, log, delivered, methods,
                   sigdict, signames, builds, argv, dropped>>

clear_socket(p) ==
    /\ pc[p] \in {"clear_socket", "final_clear_socket"}
    /\ IF family = "AF_UNIX"
       THEN \* os.unlink removes the file or raises os.error, which is passed over:
            \* the file does not exist, or it exists and may not be removed
            \E unlinked \in BOOLEAN :
                /\ sockfile' = IF unlinked THEN "none" ELSE sockfile
                /\ dropped' = [dropped EXCEPT ![p] =
                       IF ~unlinked /\ sockfile # "none"
                       THEN @ \cup {<<"clear_socket", "os.error">>} ELSE @]
       ELSE UNCHANGED <<sockfile, dropped>>
    /\ IF pc[p] = "clear_socket"
       THEN /\ pc' = [pc EXCEPT ![p] = "open_storages"]
            /\ UNCHANGED <<outcome, listeners>>
       ELSE \* end of the finally clause: return, or re-raise the exception in flight
            Exit(p, IF exc[p] = "none" THEN "returned" ELSE exc[p])
    /\ calls' = [calls EXCEPT ![p] = Append(@, "clear_socket")]
    /\ UNCHANGED <<family, osname, options, has_storages, storages, opened, closeCalls,
                   todo, cur, closeSeq, exc, disp, log, delivered, methods, sigdict, signames,
                   builds, argv>>

\* Variant of open_storages: main goes on to setup_signals before the loop
\* over the openers has run.
open_storages_signals_first(p) ==
    /\ pc[p] = "open_storages"
    /\ has_storages' = [has_storages EXCEPT ![p] = TRUE]
    /\ storages' = [storages EXCEPT ![p] = EmptyRegistry]
    /\ pc' = [pc EXCEPT ![p] = "setup_signals"]
    /\ calls' = [calls EXCEPT ![p] = Append(@, "open_storages")]
    /\ UNCHANGED <<family, osname, sockfile, listeners, options, opened, closeCalls,
                   todo, cur, closeSeq, exc, outcome, disp, log, delivered, methods, sigdict,
                   signames, builds, argv, dropped>>

\* self.storages = {}
open_storages(p) ==
    /\ pc[p] = "open_storages"
    /\ has_storages' = [has_storages EXCEPT ![p] = TRUE]
    /\ storages' = [storages EXCEPT ![p] = EmptyRegistry]
    /\ pc' = [pc EXCEPT ![p] = "open_loop"]
    /\ calls' = [calls EXCEPT ![p] = Append(@, "open_storages")]
    /\ UNCHANGED <<family, osname, sockfile, listeners, options, opened, closeCalls,
                   todo, cur, closeSeq, exc, outcome, disp, log, delivered, methods, sigdict,
                   signames, builds, argv, dropped>>

\* Variant of open_storages_loop: a failing open() closes the storages opened
\* so far before the error propagates.
open_storages_loop_rollback(p) ==
    /\ pc[p] = "open_loop"
    /\ LET k == Cardinality(opened[p]) + 1
           name == options[p][k]
       IN /\ log' = [log EXCEPT ![p] = @ \cup {info("opening storage", name)}]
          /\ \E ok \in BOOLEAN :
                IF ok
                THEN /\ storages' = [storages EXCEPT ![p] =
                            [n \in DOMAIN @ \cup {name} |-> IF n = name THEN k ELSE @[n]]]
                     /\ opened' = [opened EXCEPT ![p] = @ \cup {k}]
                     /\ pc' = [pc EXCEPT ![p] =
                            IF k = Len(options[p]) THEN "setup_signals" ELSE @]
                     /\ UNCHANGED <<exc, todo, calls, closeCalls>>
                ELSE /\ EnterFinally(p, "OpenError", <<>>)
                     /\ closeCalls' = [closeCalls EXCEPT ![p] =
                            [h \in DOMAIN @ |-> IF h \in opened[p] THEN @[h] + 1 ELSE @[h]]]
                     /\ UNCHANGED <<storages, opened>>
    /\ UNCHANGED <<family, osname, sockfile, listeners, options, has_storages,
                   cur, closeSeq, outcome, disp, delivered, methods, sigdict, signames, builds,
                   argv, dropped>>

\* Variant of open_storages_loop: a failing open() leaves main at once, as if
\* open_storages were called outside the try statement.
open_storages_loop_no_finally(p) ==
    /\ pc[p] = "open_loop"
    /\ LET k == Cardinality(opened[p]) + 1
           name == options[p][k]
       IN /\ log' = [log EXCEPT ![p] = @ \cup {info("opening storage", name)}]
          /\ \E ok \in BOOLEAN :
                IF ok
                THEN /\ storages' = [storages EXCEPT ![p] =
                            [n \in DOMAIN @ \cup {name} |-> IF n = name THEN k ELSE @[n]]]
                     /\ opened' = [opened EXCEPT ![p] = @ \cup {k}]
                     /\ pc' = [pc EXCEPT ![p] =
                            IF k = Len(options[p]) THEN "setup_signals" ELSE @]
                     /\ UNCHANGED <<exc, todo, calls, outcome, listeners>>
                ELSE /\ Exit(p, "OpenError")
                     /\ UNCHANGED <<storages, opened, exc, todo, calls>>
    /\ UNCHANGED <<family, osname, sockfile, options, has_storages,
                   closeCalls, cur, closeSeq, disp, delivered, methods, sigdict, signames,
                   builds, argv, dropped>>

\* One iteration of the loop of open_storages.
open_storages_loop(p) ==
    /\ pc[p] = "open_loop"
    /\ LET k == Cardinality(opened[p]) + 1
           name == options[p][k]
       IN /\ log' = [log EXCEPT ![p] = @ \cup {info("opening storage", name)}]
          /\ \E ok \in BOOLEAN :
                IF ok
                THEN /\ storages' = [storages EXCEPT ![p] =
                            [n \in DOMAIN @ \cup {name} |-> IF n = name THEN k ELSE @[n]]]
                     /\ opened' = [opened EXCEPT ![p] = @ \cup {k}]
                     /\ pc' = [pc EXCEPT ![p] =
                            IF k = Len(options[p]) THEN "setup_signals" ELSE @]
                     /\ UNCHANGED <<exc, todo, calls>>
                ELSE \* opener.open() raises
                     /\ EnterFinally(p, "OpenError", <<>>)
                     /\ UNCHANGED <<storages, opened>>
    /\ UNCHANGED <<family, osname, sockfile, listeners, options, has_storages,
                   closeCalls, cur, closeSeq, outcome, disp, delivered, methods, sigdict,
                   signames, builds, argv, dropped>>

\* The dispositions after setup_signals: SIGXFSZ is set to SIG_IGN first,
\* then every number of the table whose name has a handler method gets a wrapper.
Installed(d, t) ==
    [s \in Signals |->
        IF ("handle_" \o Lower(t[s])) \in methods THEN "wrapper"
        ELSE IF s = "SIGXFSZ" THEN "SIG_IGN"
        ELSE d[s]]

setup_signals(p) ==
    /\ pc[p] = "setup_signals"
    /\ \E ok \in BOOLEAN :
          IF ~ok
          THEN \* the first signal.signal() raises
               /\ EnterFinally(p, "SignalError", <<"setup_signals">>)
               /\ UNCHANGED <<disp, signames, builds>>
          ELSE /\ IF osname # "posix"
                  THEN UNCHANGED <<disp, signames, builds>>
                  ELSE /\ signames' = [signames EXCEPT ![p] = init_signames(sigdict)]
                       /\ builds' = [builds EXCEPT ![p] = @ + 1]
                       /\ disp' = [disp EXCEPT ![p] = Installed(@, init_signames(sigdict))]
               /\ pc' = [pc EXCEPT ![p] = "create_server"]
               /\ calls' = [calls EXCEPT ![p] = Append(@, "setup_signals")]
               /\ UNCHANGED <<exc, todo>>
    /\ UNCHANGED <<family, osname, sockfile, listeners, options, has_storages, storages,
                   opened, closeCalls, cur, closeSeq, outcome, log, delivered, methods,
                   sigdict, argv, dropped>>

\* signame(sig): builds the table when there is none and looks sig up.
signame(p) ==
    /\ pc[p] \notin {"off", "done"}
    /\ IF signames[p] = NoTable
       THEN /\ signames' = [signames EXCEPT ![p] = init_signames(sigdict)]
            /\ builds' = [builds EXCEPT ![p] = @ + 1]
       ELSE UNCHANGED <<signames, builds>>
    /\ UNCHANGED <<family, osname, sockfile, listeners, options, pc, has_storages, storages,
                   opened, closeCalls, todo, cur, closeSeq, exc, outcome, disp, log, calls,
                   delivered, methods, sigdict, argv, dropped>>

create_server(p) ==
    /\ pc[p] = "create_server"
    /\ \E ok \in BOOLEAN :
          IF ok /\ CanBind
          THEN \* the StorageServer binds the address and listens
               /\ listeners' = listeners \cup {p}
               /\ sockfile' = IF family = "AF_UNIX" THEN p ELSE sockfile
               /\ pc' = [pc EXCEPT ![p] = "loop_forever"]
               /\ calls' = [calls EXCEPT ![p] = @ \o <<"create_server", "loop_forever">>]
               /\ UNCHANGED <<exc, todo>>
          ELSE /\ EnterFinally(p, IF ok THEN "socket.error" ELSE "ServerError",
                               <<"create_server">>)
               /\ UNCHANGED <<listeners, sockfile>>
    /\ UNCHANGED <<family, osname, options, has_storages, storages, opened, closeCalls,
                   cur, closeSeq, outcome, disp, log, delivered, methods, sigdict, signames,
                   builds, argv, dropped>>

\* Variant of loop_forever: an error of the serving loop leaves main at once.
loop_forever_no_finally(p) ==
    /\ pc[p] = "loop_forever"
    /\ \/ EnterFinally(p, "none", <<>>) /\ UNCHANGED <<outcome, listeners>>
       \/ Exit(p, "LoopError") /\ UNCHANGED <<exc, todo, calls>>
    /\ UNCHANGED <<family, osname, sockfile, options, has_storages, storages,
                   opened, closeCalls, cur, closeSeq, disp, log, delivered, methods, sigdict,
                   signames, builds, argv, dropped>>

\* The serving loop ends by itself: it returns or raises.
loop_forever(p) ==
    /\ pc[p] = "loop_forever"
    /\ \E e \in {"none", "LoopError"} : EnterFinally(p, e, <<>>)
    /\ UNCHANGED <<family, osname, sockfile, listeners, options, has_storages, storages,
                   opened, closeCalls, cur, closeSeq, outcome, disp, log, delivered, methods,
                   sigdict, signames, builds, argv, dropped>>

\* Variant of close_storages: the loop ends after its first item.
close_storages_first_only(p) ==
    /\ pc[p] = "close_storages"
    /\ IF ~has_storages[p]
       THEN /\ Exit(p, "AttributeError")
            /\ UNCHANGED <<todo, cur, log>>
       ELSE IF todo[p] = {}
       THEN /\ pc' = [pc EXCEPT ![p] = "final_clear_socket"]
            /\ UNCHANGED <<todo, cur, log, outcome, listeners>>
       ELSE \E name \in todo[p] :
            /\ todo' = [todo EXCEPT ![p] = {}]
            /\ cur' = [cur EXCEPT ![p] = name]
            /\ log' = [log EXCEPT ![p] = @ \cup {info("closing storage", name)}]
            /\ pc' = [pc EXCEPT ![p] = "close_try"]
            /\ UNCHANGED <<outcome, listeners>>
    /\ UNCHANGED <<family, osname, sockfile, options, has_storages, storages, opened,
                   closeCalls, closeSeq, exc, disp, calls, delivered, methods, sigdict,
                   signames, builds, argv, dropped>>

\* Head of the loop of close_storages: the next item, and info("closing storage").
close_storages(p) ==
    /\ pc[p] = "close_storages"
    /\ IF ~has_storages[p]
       THEN \* self.storages was never assigned
            /\ Exit(p, "AttributeError")
            /\ UNCHANGED <<todo, cur, log>>
       ELSE IF todo[p] = {}
       THEN /\ pc' = [pc EXCEPT ![p] = "final_clear_socket"]
            /\ UNCHANGED <<todo, cur, log, outcome, listeners>>
       ELSE \E name \in todo[p] :
            /\ todo' = [todo EXCEPT ![p] = @ \ {name}]
            /\ cur' = [cur EXCEPT ![p] = name]
            /\ log' = [log EXCEPT ![p] = @ \cup {info("closing storage", name)}]
            /\ pc' = [pc EXCEPT ![p] = "close_try"]
            /\ UNCHANGED <<outcome, listeners>>
    /\ UNCHANGED <<family, osname, sockfile, options, has_storages, storages, opened,
                   closeCalls, closeSeq, exc, disp, calls, delivered, methods, sigdict,
                   signames, builds, argv, dropped>>

\* Variant of close_storages_try: no except clause, a failing close() propagates.
close_storages_try_fail_fast(p) ==
    /\ pc[p] = "close_try"
    /\ closeCalls' = [closeCalls EXCEPT ![p][storages[p][cur[p]]] = @ + 1]
    /\ \E raised \in BOOLEAN :
          /\ closeSeq' = [closeSeq EXCEPT ![p] = Append(@, [name |-> cur[p], raised |-> raised])]
          /\ IF raised
             THEN Exit(p, "CloseError") /\ UNCHANGED cur
             ELSE /\ pc' = [pc EXCEPT ![p] = "close_storages"]
                  /\ cur' = [cur EXCEPT ![p] = ""]
                  /\ UNCHANGED <<outcome, listeners>>
    /\ UNCHANGED <<family, osname, sockfile, options, has_storages, storages,
                   opened, todo, exc, disp, calls, log, delivered, methods, sigdict, signames,
                   builds, argv, dropped>>

\* Variant of close_storages_try: a failure of close() is logged and then
\* re-raised once the finally clause is through, in place of the exception
\* in flight.
close_storages_try_escalates(p) ==
    /\ pc[p] = "close_try"
    /\ closeCalls' = [closeCalls EXCEPT ![p][storages[p][cur[p]]] = @ + 1]
    /\ \E raised \in BOOLEAN :
          /\ closeSeq' = [closeSeq EXCEPT ![p] = Append(@, [name |-> cur[p], raised |-> raised])]
          /\ log' = [log EXCEPT ![p] =
                IF raised THEN @ \cup {exception("failed to close storage", cur[p])} ELSE @]
          /\ exc' = [exc EXCEPT ![p] = IF raised THEN "CloseError" ELSE @]
    /\ pc' = [pc EXCEPT ![p] = "close_storages"]
    /\ cur' = [cur EXCEPT ![p] = ""]
    /\ UNCHANGED <<family, osname, sockfile, listeners, options, has_storages, storages,
                   opened, todo, outcome, disp, calls, delivered, methods, sigdict,
                   signames, builds, argv, dropped>>

\* The try statement of close_storages: storage.close(), any exception logged.
close_storages_try(p) ==
    /\ pc[p] = "close_try"
    /\ closeCalls' = [closeCalls EXCEPT ![p][storages[p][cur[p]]] = @ + 1]
    /\ \E raised \in BOOLEAN :
          /\ closeSeq' = [closeSeq EXCEPT ![p] = Append(@, [name |-> cur[p], raised |-> raised])]
          /\ log' = [log EXCEPT ![p] =
                IF raised THEN @ \cup {exception("failed to close storage", cur[p])} ELSE @]
    /\ pc' = [pc EXCEPT ![p] = "close_storages"]
    /\ cur' = [cur EXCEPT ![p] = ""]
    /\ UNCHANGED <<family, osname, sockfile, listeners, options, has_storages, storages,
                   opened, todo, exc, outcome, disp, calls, delivered, methods, sigdict,
                   signames, builds, argv, dropped>>

----------------------------------------------------------------------------
\* Signal handlers

\* Variant of handle_sigterm: the handler calls close_storages itself before
\* it exits, and the finally clause of main calls it again.
handle_sigterm_closes(p) ==
    IF pc[p] \in TryBody
    THEN /\ EnterFinally(p, "SystemExit0", <<"close_storages">>)
         /\ log' = [log EXCEPT ![p] = @ \cup {info("terminated by SIGTERM", "")}]
         /\ UNCHANGED <<outcome, listeners, cur, closeCalls, closeSeq>>
    ELSE Raise(p, "SystemExit0", {info("terminated by SIGTERM", "")})

handle_sigterm(p) == Raise(p, "SystemExit0", {info("terminated by SIGTERM", "")})

\* Variant of handle_sigint: exits with status 1.
handle_sigint_exit1(p) == Raise(p, "SystemExit1", {info("terminated by SIGINT", "")})

handle_sigint(p) == Raise(p, "SystemExit0", {info("terminated by SIGINT", "")})

\* Variant of handle_sigusr2: the handler exits after it has reinitialized the log.
handle_sigusr2_exits(p) ==
    Raise(p, "SystemExit0", {info("reinitializing zLOG", ""), info("reinitialized zLOG", "")})

handle_sigusr2(p) ==
    /\ log' = [log EXCEPT ![p] =
          @ \cup {info("reinitializing zLOG", ""), info("reinitialized zLOG", "")}]
    /\ UNCHANGED <<pc, outcome, listeners, exc, todo, cur, closeCalls, closeSeq, calls>>

\* The host delivers signal sig to process p.
Deliver(p, sig) ==
    /\ disp[p][sig] # "SIG_IGN"
    /\ delivered' = [delivered EXCEPT ![p] =
          IF sig \in TermSignals THEN @ \cup {<<sig, pc[p]>>} ELSE @]
    /\ CASE disp[p][sig] = "SIG_DFL" ->
               \* the default action ends the process at once
               /\ Exit(p, "killed")
               /\ UNCHANGED <<exc, todo, cur, closeCalls, closeSeq, calls, log>>
         [] disp[p][sig] = "default_int_handler" ->
               Raise(p, "KeyboardInterrupt", {})
         [] disp[p][sig] = "wrapper" /\ sig = "SIGTERM" -> handle_sigterm(p)
         [] disp[p][sig] = "wrapper" /\ sig = "SIGINT" -> handle_sigint(p)
         [] disp[p][sig] = "wrapper" /\ sig = "SIGUSR2" -> handle_sigusr2(p)
         [] disp[p][sig] = "wrapper" /\ sig \in {"SIGIO", "SIGXFSZ"} ->
               \* the handler of a server that reuses ZEOServer: it returns
               UNCHANGED <<pc, outcome, listeners, exc, todo, cur, closeCalls, closeSeq,
                           calls, log>>
    /\ UNCHANGED <<family, osname, sockfile, options, has_storages, storages, opened, disp,
                   methods, sigdict, signames, builds, argv, dropped>>

\* A signal arrives while the serving loop has control.
SignalServing(p) ==
    /\ pc[p] = "loop_forever"
    /\ \E sig \in Signals : Deliver(p, sig)

\* A signal arrives while main is starting up, before the serving loop.
SignalStartup(p) ==
    /\ pc[p] \in {"check_socket", "clear_socket", "open_storages", "open_loop",
                  "setup_signals", "create_server"}
    /\ \E sig \in Signals : Deliver(p, sig)

\* A signal arrives at any other point of main.
SignalElsewhere(p) ==
    /\ pc[p] \notin {"off", "done", "loop_forever"}
    /\ \E sig \in Signals : Deliver(p, sig)

----------------------------------------------------------------------------
\* Specifications

\* The server objects and their processes before main is called.
InitObject ==
    /\ calls = [p \in Procs |-> <<>>]
    /\ has_storages = [p \in Procs |-> FALSE]
    /\ storages = [p \in Procs |-> EmptyRegistry]
    /\ opened = [p \in Procs |-> {}]
    /\ closeCalls = [p \in Procs |-> [h \in 1..MaxStorages |-> 0]]
    /\ todo = [p \in Procs |-> {}]
    /\ cur = [p \in Procs |-> ""]
    /\ closeSeq = [p \in Procs |-> <<>>]
    /\ exc = [p \in Procs |-> "none"]
    /\ outcome = [p \in Procs |-> "running"]
    /\ disp = [p \in Procs |-> InitialDisp]
    /\ log = [p \in Procs |-> {}]
    /\ delivered = [p \in Procs |-> {}]
    /\ dropped = [p \in Procs |-> {}]
    /\ signames = [p \in Procs |-> NoTable]
    /\ builds = [p \in Procs |-> 0]

\* The instances in started are about to call main with realized options.
InitProcess(started) ==
    /\ pc = [p \in Procs |-> IF p \in started THEN "check_socket" ELSE "off"]
    /\ argv = [p \in Procs |-> 0]
    /\ InitObject

\* One server instance; the address is free, holds a stale socket file, or
\* is served by a live foreign peer.
Init ==
    /\ family \in {"AF_UNIX", "AF_INET"}
    /\ osname \in {"posix", "nt"}
    /\ \E live \in BOOLEAN, stale \in BOOLEAN :
          /\ listeners = IF live THEN {"peer"} ELSE {}
          /\ sockfile = IF family # "AF_UNIX" THEN "none"
                        ELSE IF live THEN "peer"
                        ELSE IF stale THEN "stale" ELSE "none"
    /\ \E o \in OptionChoices : options = [p \in Procs |-> o]
    /\ methods = HandlerMethods
    /\ sigdict = OneOrder
    /\ InitProcess({"p1"})

\* One instance of ZEOServer or of a server that reuses it.
InitSignals ==
    /\ family \in {"AF_UNIX", "AF_INET"}
    /\ osname \in {"posix", "nt"}
    /\ listeners = {}
    /\ sockfile = "none"
    /\ \E o \in OptionChoices : options = [p \in Procs |-> o]
    /\ methods \in ServerClasses
    /\ sigdict \in DictOrders
    /\ InitProcess({"p1"})

\* One instance whose command line, with up to MaxStorages -f arguments, has
\* not been handled yet (ZEOOptions.storages is None).
InitOptions ==
    /\ family \in {"AF_UNIX", "AF_INET"}
    /\ osname \in {"posix", "nt"}
    /\ listeners = {}
    /\ sockfile \in (IF family = "AF_UNIX" THEN {"none", "stale"} ELSE {"none"})
    /\ options = [p \in Procs |-> <<>>]
    /\ methods = HandlerMethods
    /\ sigdict = OneOrder
    /\ pc = [p \in Procs |-> IF p = "p1" THEN "realize" ELSE "off"]
    /\ argv \in {[p \in Procs |-> IF p = "p1" THEN n ELSE 0] : n \in 0..MaxStorages}
    /\ InitObject

\* Names of storage sections.
NamePool == {"1", "2", "3"}

\* One instance whose options hold up to MaxStorages storage specs with any
\* names, equal names included.
InitNames ==
    /\ family = "AF_INET"
    /\ osname = "posix"
    /\ listeners = {}
    /\ sockfile = "none"
    /\ \E n \in 1..MaxStorages : \E o \in [1..n -> NamePool] :
           options = [p \in Procs |-> o]
    /\ methods = HandlerMethods
    /\ sigdict = OneOrder
    /\ InitProcess({"p1"})

\* Two server instances started against the same address.
InitPair ==
    /\ family \in {"AF_UNIX", "AF_INET"}
    /\ osname = "posix"
    /\ listeners = {}
    /\ sockfile \in (IF family = "AF_UNIX" THEN {"none", "stale"} ELSE {"none"})
    /\ options = [p \in Procs |-> FileOptions(1)]
    /\ methods = HandlerMethods
    /\ sigdict = OneOrder
    /\ InitProcess(Procs)

Step(p) ==
    \/ check_socket(p)
    \/ clear_socket(p)
    \/ open_storages(p)
    \/ open_storages_loop(p)
    \/ setup_signals(p)
    \/ create_server(p)
    \/ loop_forever(p)
    \/ close_storages(p)
    \/ close_storages_try(p)
    \/ SignalServing(p)

Next == \E p \in Procs : Step(p)

NextAsync == \E p \in Procs : Step(p) \/ SignalElsewhere(p)

\* One instance; signals arrive only while the serving loop has control, the
\* one point where main waits for them.
Spec == Init /\ [][Next]_vars

\* One instance; signals arrive at any point of main, before the handlers are
\* installed and while the finally clause runs included.
SpecAsync == Init /\ [][NextAsync]_vars

NextStartup == \E p \in Procs : Step(p) \/ SignalStartup(p)

\* One instance; signals arrive during startup and serving, none while the
\* finally clause runs.
SpecStartup == Init /\ [][NextStartup]_vars

\* Two instances race for one address.
SpecPair == InitPair /\ [][Next]_vars

NextOptions == \E p \in Procs : Step(p) \/ realize(p)

\* One instance, from the handling of its command line on.
SpecOptions == InitOptions /\ [][NextOptions]_vars

\* One instance whose storage specs have any names.
SpecNames == InitNames /\ [][Next]_vars

NextSignals == \E p \in Procs : Step(p) \/ signame(p)

\* One instance of any of the server classes; the embedding program may call
\* signame at any time.
SpecSignals == InitSignals /\ [][NextSignals]_vars

----------------------------------------------------------------------------
\* Vocabulary of the properties

\* main has returned or raised (the process was not ended by a signal's default action).
MainEnded(p) == pc[p] = "done" /\ outcome[p] # "killed"

\* The last two calls of main are close_storages, then clear_socket, and
\* close_storages was called once.
CleanedUp(p) ==
    LET c == calls[p]
    IN /\ Len(c) >= 2
       /\ c[Len(c) - 1] = "close_storages"
       /\ c[Len(c)] = "clear_socket"
       /\ Count("close_storages", c) = 1

\* close() has been invoked once on every handle of the registry.
RegistryClosed(p) ==
    /\ has_storages[p]
    /\ \A n \in DOMAIN storages[p] : closeCalls[p][storages[p][n]] = 1

\* Exceptions that are unhandled failures (not the SystemExit of usage() or of a handler).
UnhandledErrors ==
    {"socket.error", "OpenError", "SignalError", "ServerError", "LoopError",
     "KeyboardInterrupt", "AttributeError"}

\* A termination signal arrived while the finally clause of main was running.
Interrupted(p) ==
    \E d \in delivered[p] : d[2] \in {"close_storages", "close_try", "final_clear_socket"}

\* A termination signal arrived while the serving loop had control.
SignalledServing(p) == \E d \in delivered[p] : d[2] = "loop_forever"

\* handle_sigterm or handle_sigint has run.
TermObserved(p) ==
    \E sig \in TermSignals : info("terminated by " \o sig, "") \in log[p]

----------------------------------------------------------------------------
\* C1: once main has called open_storages, however the try body ends (the
\* loop returns, a handled termination signal, a failure of open_storages,
\* setup_signals, create_server or loop_forever), main calls close_storages
\* once and then clear_socket, as its last two calls, before it returns or
\* re-raises, and close() has then been invoked on every registry handle.
C1_CleanupAfterTry ==
    \A p \in Procs :
        (MainEnded(p) /\ "open_storages" \in Range(calls[p]))
            => (CleanedUp(p) /\ RegistryClosed(p))

\* A handled termination signal ended the serving loop and the cleanup ran,
\* one close() failing on the way.
C1_Witness ==
    \E p \in Procs :
        /\ MainEnded(p) /\ outcome[p] = "SystemExit0"
        /\ SignalledServing(p)
        /\ CleanedUp(p)
        /\ \E i \in 1..Len(closeSeq[p]) : closeSeq[p][i].raised

\* C2 as stated: an unhandled error raised in any lifecycle step, check_socket
\* and the first clear_socket included, leaves main only after close_storages
\* and then clear_socket have been called.
C2_Original ==
    \A p \in Procs :
        (MainEnded(p) /\ outcome[p] \in UnhandledErrors) => CleanedUp(p)

\* C2 amended: an unhandled error raised by open_storages, setup_signals,
\* create_server or loop_forever leaves main after close_storages and then
\* clear_socket were called; an error raised by check_socket, which main
\* calls before the try statement, leaves main at once: nothing else was
\* called and no storage was opened.
C2_ErrorCleanupInsideTryOnly ==
    \A p \in Procs :
        (MainEnded(p) /\ outcome[p] \in UnhandledErrors)
            => IF "open_storages" \in Range(calls[p])
               THEN CleanedUp(p) /\ RegistryClosed(p)
               ELSE /\ calls[p] = <<"check_socket">>
                    /\ outcome[p] = "socket.error"
                    /\ opened[p] = {} /\ ~has_storages[p]

\* open() of the second storage failed; the first was closed, then clear_socket ran.
C2_Witness ==
    \E p \in Procs :
        /\ MainEnded(p) /\ outcome[p] = "OpenError"
        /\ opened[p] = {1}
        /\ closeCalls[p][1] = 1
        /\ CleanedUp(p)

\* C3 as stated: whenever the process has ended after a storage was opened,
\* whatever ended it (signals with their default action included), close()
\* was invoked on every opened storage and the final clear_socket was called.
C3_Original ==
    \A p \in Procs :
        (pc[p] = "done" /\ opened[p] # {})
            => /\ \A h \in opened[p] : closeCalls[p][h] >= 1
               /\ Count("clear_socket", calls[p]) = 2

\* C3 amended: when main itself ends (return, exception of a signal handler
\* or of SIGINT's default handler, unhandled failure) after a storage was
\* opened, close_storages was called; and unless a termination signal
\* arrived during the finally clause, close() was invoked once on every
\* opened storage and clear_socket was called after it.  (A signal whose
\* disposition is the default action ends the process with no cleanup.)
C3_CleanupWhenMainEnds ==
    \A p \in Procs :
        (MainEnded(p) /\ opened[p] # {})
            => /\ Count("close_storages", calls[p]) = 1
               /\ ~Interrupted(p)
                    => /\ CleanedUp(p)
                       /\ \A h \in opened[p] : closeCalls[p][h] = 1

\* SIGINT arrived before setup_signals installed any handler, its default
\* handler raised KeyboardInterrupt inside open_storages, and the cleanup ran.
C3_Witness ==
    \E p \in Procs :
        /\ MainEnded(p) /\ outcome[p] = "KeyboardInterrupt"
        /\ opened[p] # {}
        /\ <<"SIGINT", "open_loop">> \in delivered[p]
        /\ ~Interrupted(p)
        /\ CleanedUp(p)

\* C4 as stated: in every execution of main that has ended, close_storages
\* was called exactly once.
C4_Original ==
    \A p \in Procs :
        pc[p] = "done" => Count("close_storages", calls[p]) = 1

\* C4 amended: close_storages is never called twice; when main has returned
\* or raised it was called exactly once if main got as far as open_storages
\* and not at all if check_socket ended main; a process ended by a signal's
\* default action while serving never called it.
C4_ClosedAtMostOnce ==
    \A p \in Procs :
        /\ Count("close_storages", calls[p]) <= 1
        /\ MainEnded(p)
             => (Count("close_storages", calls[p]) = 1 <=> "open_storages" \in Range(calls[p]))
        /\ (pc[p] = "done" /\ outcome[p] = "killed")
             => Count("close_storages", calls[p]) = 0

\* The preflight found a live peer: main ended without calling close_storages.
C4_Witness ==
    \E p \in Procs :
        /\ MainEnded(p) /\ outcome[p] = "SystemExit2"
        /\ Count("close_storages", calls[p]) = 0

\* C5: when close_storages has gone through its loop, close() has been
\* invoked once on each of the N registry handles whichever of them raised,
\* one iteration per handle, and every close() that raised has an ERROR
\* record with the error context in the log; no close() failure ends main.
C5_CloseAllBestEffort ==
    \A p \in Procs :
        /\ (pc[p] \in {"final_clear_socket", "done"} /\ "close_storages" \in Range(calls[p])
              /\ outcome[p] # "killed")
             => /\ RegistryClosed(p)
                /\ Len(closeSeq[p]) = Cardinality(DOMAIN storages[p])
                /\ {closeSeq[p][i].name : i \in 1..Len(closeSeq[p])} = DOMAIN storages[p]
                /\ \A i \in 1..Len(closeSeq[p]) :
                       closeSeq[p][i].raised
                           <=> exception("failed to close storage", closeSeq[p][i].name) \in log[p]
        /\ outcome[p] # "CloseError"

\* Three storages; the close of the second one visited raised, the first and
\* the third were closed.
C5_Witness ==
    \E p \in Procs :
        /\ pc[p] = "done"
        /\ Len(closeSeq[p]) = 3
        /\ closeSeq[p][2].raised /\ ~closeSeq[p][1].raised /\ ~closeSeq[p][3].raised
        /\ RegistryClosed(p)

\* C6: when open() of the k-th opener fails, storages 1..k-1 and no later one
\* are open and in the registry, open_storages has closed none of them, no
\* handler is installed and setup_signals, create_server and loop_forever are
\* never called; when main ends, close() has been invoked once on exactly the
\* storages 1..k-1, clear_socket was called after close_storages, and the
\* error leaves main with a non-zero exit status.
C6_OpenFailure ==
    \A p \in Procs :
        (exc[p] = "OpenError" \/ outcome[p] = "OpenError")
            => LET k == Cardinality(opened[p]) + 1
               IN /\ k <= Len(options[p])
                  /\ opened[p] = 1..(k - 1)
                  /\ DOMAIN storages[p] = {options[p][i] : i \in 1..(k - 1)}
                  /\ \A i \in 1..(k - 1) : storages[p][options[p][i]] = i
                  /\ Range(calls[p]) \cap {"setup_signals", "create_server", "loop_forever"} = {}
                  /\ disp[p] = InitialDisp
                  /\ closeSeq[p] = <<>> /\ cur[p] = ""
                        => \A h \in 1..MaxStorages : closeCalls[p][h] = 0
                  /\ outcome[p] # "running" => pc[p] = "done"
                  /\ pc[p] = "done"
                        => /\ outcome[p] = "OpenError"
                           /\ ExitStatus(outcome[p]) # 0
                           /\ \A h \in 1..MaxStorages :
                                  closeCalls[p][h] = IF h \in opened[p] THEN 1 ELSE 0
                           /\ calls[p] = <<"check_socket", "clear_socket", "open_storages",
                                           "close_storages", "clear_socket">>

\* open() of the third of three storages failed; the two opened were closed.
C6_Witness ==
    \E p \in Procs :
        /\ pc[p] = "done" /\ outcome[p] = "OpenError"
        /\ Len(options[p]) = 3
        /\ opened[p] = {1, 2}
        /\ closeCalls[p][1] = 1 /\ closeCalls[p][2] = 1 /\ closeCalls[p][3] = 0

\* C7: when a live peer accepts the probe of check_socket, main ends there
\* with the SystemExit(2) of usage(): non-zero exit status, nothing but
\* check_socket called, no storage opened or closed, no handler installed,
\* and the peer's socket file still in place.
C7_AddressInUse ==
    \A p \in Procs :
        ("peer" \in listeners /\ pc[p] \notin {"off", "check_socket"}
           /\ outcome[p] # "socket.error")
            => /\ pc[p] = "done"
               /\ outcome[p] = "SystemExit2"
               /\ ExitStatus(outcome[p]) # 0
               /\ calls[p] = <<"check_socket">>
               /\ opened[p] = {} /\ ~has_storages[p]
               /\ \A h \in 1..MaxStorages : closeCalls[p][h] = 0
               /\ disp[p] = InitialDisp
               /\ family = "AF_UNIX" => sockfile = "peer"

\* A peer serves the path of the address and the instance has ended on usage().
C7_Witness ==
    \E p \in Procs :
        /\ "peer" \in listeners
        /\ family = "AF_UNIX" /\ sockfile = "peer"
        /\ pc[p] = "done" /\ outcome[p] = "SystemExit2"

\* C8 as stated: of two instances started against one address, in every
\* interleaving, while one of them is bound to the address the other has not
\* got past its preflight (check_socket and the first clear_socket) unless it
\* has ended, and the path of the address refers to the socket of the
\* instance that serves: the other's clear_socket has not removed it.
C8_Original ==
    \A p \in Procs : \A q \in Procs \ {p} :
        /\ q \in listeners => pc[p] \in {"check_socket", "clear_socket", "done"}
        /\ (pc[q] = "loop_forever" /\ family = "AF_UNIX") => sockfile = q

\* C9 as stated: when a termination signal was delivered while the serving
\* loop had control and the process has ended, the handler's message is in
\* the log, close_storages was called and the exit status is 0.
C9_Original ==
    \A p \in Procs :
        (pc[p] = "done" /\ SignalledServing(p))
            => /\ ExitStatus(outcome[p]) = 0
               /\ TermObserved(p)
               /\ Count("close_storages", calls[p]) = 1

\* C9 amended: on a POSIX platform, where setup_signals has installed the
\* handlers, a SIGTERM or SIGINT delivered while the serving loop has control
\* leaves the handler's message in the log and ends main with SystemExit(0),
\* exit status 0, after close_storages has invoked close() on every registry
\* handle, whichever close() calls raised.
C9_TerminationSignalExitsZero ==
    \A p \in Procs :
        (osname = "posix" /\ pc[p] = "done" /\ SignalledServing(p))
            => /\ outcome[p] = "SystemExit0"
               /\ ExitStatus(outcome[p]) = 0
               /\ \A d \in delivered[p] : info("terminated by " \o d[1], "") \in log[p]
               /\ CleanedUp(p)
               /\ RegistryClosed(p)

\* SIGINT arrived during serving; a close() raised during the teardown.
C9_Witness ==
    \E p \in Procs :
        /\ osname = "posix"
        /\ pc[p] = "done" /\ outcome[p] = "SystemExit0"
        /\ <<"SIGINT", "loop_forever">> \in delivered[p]
        /\ \E i \in 1..Len(closeSeq[p]) : closeSeq[p][i].raised

\* C10 as stated: once handle_sigterm or handle_sigint has run for a signal
\* delivered during serving, main does not end before close() was invoked on
\* every registry handle and the final clear_socket was called, whatever
\* further signals arrive while close_storages or clear_socket is executing.
C10_Original ==
    \A p \in Procs :
        (MainEnded(p) /\ SignalledServing(p) /\ TermObserved(p))
            => /\ has_storages[p]
               /\ \A n \in DOMAIN storages[p] : closeCalls[p][storages[p][n]] >= 1
               /\ Count("clear_socket", calls[p]) = 2

\* The calls of main before the finally clause, in the order of its text.
MainOrder ==
    <<"check_socket", "clear_socket", "open_storages", "setup_signals", "create_server",
      "loop_forever">>

\* The calls of p are a prefix of MainOrder, followed by the calls of the
\* finally clause if main has got there.
InOrder(p) ==
    LET c == calls[p]
        n == Len(c)
        k == IF n >= 1 /\ c[n] = "close_storages" THEN n - 1
             ELSE IF n >= 2 /\ c[n - 1] = "close_storages" THEN n - 2
             ELSE n
    IN /\ k <= Len(MainOrder)
       /\ \A i \in 1..k : c[i] = MainOrder[i]

\* Every opener of the options has been opened and is in the registry.
RegistryFull(p) ==
    /\ has_storages[p]
    /\ opened[p] = 1..Len(options[p])
    /\ DOMAIN storages[p] = Range(options[p])

\* A handler method of the server has run.
HandlerRan(p) ==
    log[p] \cap {info("terminated by SIGTERM", ""), info("terminated by SIGINT", ""),
                 info("reinitializing zLOG", "")} # {}

\* C11: the lifecycle steps are ordered.  No open() is invoked before
\* check_socket has probed the address; no disposition is changed before
\* every opener of the options was opened and entered in the registry;
\* setup_signals is called before create_server and loop_forever, and on a
\* POSIX platform the handlers are installed when the serving loop is
\* entered; so no handler has run and no serving has started while the
\* registry is partly populated.
C11_LifecycleOrder ==
    \A p \in Procs :
        LET called == Range(calls[p])
        IN /\ InOrder(p)
           /\ opened[p] # {} => "open_storages" \in called
           /\ disp[p] # InitialDisp => RegistryFull(p)
           /\ "setup_signals" \in called => RegistryFull(p)
           /\ ("loop_forever" \in called /\ osname = "posix")
                 => \A s \in {"SIGTERM", "SIGINT", "SIGUSR2"} : disp[p][s] = "wrapper"
           /\ HandlerRan(p) => RegistryFull(p)

\* The server of three storages is serving with its handlers installed, and
\* handle_sigusr2 has run.
C11_Witness ==
    \E p \in Procs :
        /\ pc[p] = "loop_forever" /\ osname = "posix"
        /\ Len(options[p]) = 3 /\ RegistryFull(p)
        /\ disp[p]["SIGTERM"] = "wrapper"
        /\ info("reinitializing zLOG", "") \in log[p]

\* C12 as stated: with a path-based address, a socket file nobody listens on
\* does not stop the preflight and is gone once main has got past the first
\* clear_socket, before any storage is opened; while a live peer serves the
\* path its file stays in place and main ends on the usage error; and when
\* main has ended after it reached open_storages the socket file does not
\* exist.
C12_Original ==
    \A p \in Procs :
        family = "AF_UNIX"
            => /\ pc[p] \in {"open_storages", "open_loop", "setup_signals", "create_server"}
                     => sockfile = "none"
               /\ "peer" \in listeners
                     => /\ sockfile = "peer"
                        /\ pc[p] \in {"off", "check_socket", "done"}
                        /\ pc[p] = "done" => outcome[p] \in {"SystemExit2", "socket.error"}
               /\ (MainEnded(p) /\ "open_storages" \in Range(calls[p]))
                     => sockfile = "none"

\* setup_signals has run to its end on a POSIX platform.
SignalsSetUp(p) ==
    /\ osname = "posix"
    /\ "setup_signals" \in Range(calls[p])
    /\ "SignalError" \notin {exc[p], outcome[p]}

\* The symbolic names of signal number s.
NamesOf(s) == {n \in SigNames : Number(n) = s}

\* The server has a handler method named after one of the names of s.
HasHandler(s) == \E n \in NamesOf(s) : ("handle_" \o Lower(n)) \in methods

\* C13 as stated: after setup_signals on a POSIX platform, for every signal
\* number, a wrapper is installed if and only if the server has a method
\* handle_<lowercase name> for a symbolic name of that number, whichever of
\* the names of the number the table of init_signames kept, and a signal
\* without such a method keeps its prior disposition (SIGXFSZ, which is set
\* to ignored, apart).
C13_Original ==
    \A p \in Procs :
        SignalsSetUp(p)
            => \A s \in Signals :
                  /\ disp[p][s] = "wrapper" <=> HasHandler(s)
                  /\ (~HasHandler(s) /\ s # "SIGXFSZ") => disp[p][s] = InitialDisp[s]

\* C14 as stated: after setup_signals on a POSIX platform the disposition
\* of SIGXFSZ is "ignored", also when the server defines handle_sigxfsz.
C14_Original ==
    \A p \in Procs :
        SignalsSetUp(p) => disp[p]["SIGXFSZ"] = "SIG_IGN"

\* A close() raised in the close_storages of p.
CloseRaised(p) == \E i \in 1..Len(closeSeq[p]) : closeSeq[p][i].raised

\* C15: storage-close failures never escalate.  No iteration of
\* close_storages changes the exception in flight or ends main, whether its
\* close() raises or not; so when main ends after close_storages, its outcome
\* is the one fixed when the try body was left (return, or the original
\* error or SystemExit re-raised), the same whichever close() calls raised,
\* and the final clear_socket was called.
C15_CloseFailuresDoNotEscalate ==
    /\ [](\A p \in Procs :
             /\ outcome[p] # "CloseError"
             /\ (MainEnded(p) /\ "close_storages" \in Range(calls[p]))
                   => /\ outcome[p] = IF exc[p] = "none" THEN "returned" ELSE exc[p]
                      /\ CleanedUp(p))
    /\ [][\A p \in Procs :
              pc[p] \in {"close_storages", "close_try"}
                  => /\ exc'[p] = exc[p]
                     /\ outcome'[p] = "running"
                     /\ pc'[p] \in {"close_storages", "close_try", "final_clear_socket"}]_vars

\* The serving loop failed; of two storages the close of the first one
\* visited raised; main ended with the loop's error after clear_socket.
C15_Witness ==
    \E p \in Procs :
        /\ MainEnded(p) /\ outcome[p] = "LoopError"
        /\ Len(closeSeq[p]) = 2
        /\ closeSeq[p][1].raised /\ ~closeSeq[p][2].raised
        /\ CleanedUp(p)

Numerals == <<"1", "2", "3", "4", "5", "6", "7", "8", "9", "10", "11", "12">>

\* C17: the storage specs that handle_filename has produced for the -f
\* arguments handled so far are named "1", "2", ..., in the order of the
\* arguments (the i-th is named str(i)), hence pairwise distinct; handling
\* one more argument appends one spec and leaves the earlier ones as they are.
C17_SequentialNames ==
    /\ [](\A p \in Procs :
             /\ \A i \in 1..Len(options[p]) : options[p][i] = Numerals[i]
             /\ \A i, j \in 1..Len(options[p]) : i # j => options[p][i] # options[p][j]
             /\ pc[p] \notin {"off", "realize", "done"} => Len(options[p]) >= 1)
    /\ [][\A p \in Procs :
              argv'[p] # argv[p]
                  => /\ argv'[p] = argv[p] - 1
                     /\ Len(options'[p]) = Len(options[p]) + 1
                     /\ \A i \in 1..Len(options[p]) : options'[p][i] = options[p][i]]_vars

\* Three -f arguments were handled: the options hold the specs "1", "2", "3"
\* and main is about to start.
C17_Witness ==
    \E p \in Procs :
        /\ pc[p] = "check_socket" /\ argv[p] = 0
        /\ options[p] = <<"1", "2", "3">>

\* C18 as stated: every error that clear_socket caught, other than the
\* absence of the file, has a record with its error context in the log or
\* has left main.
C18_Original ==
    \A p \in Procs :
        \A e \in dropped[p] :
            \/ \E r \in log[p] : r[3] = e[1] /\ r[4] = "exc_info"
            \/ e[2] \in {exc[p], outcome[p]}

\* C19 as stated: over any sequence of calls of signame and setup_signals
\* the table signames is built at most once.
C19_Original ==
    \A p \in Procs : builds[p] <= 1

\* The storage specs of p have pairwise distinct names.
DistinctNames(p) ==
    \A i, j \in 1..Len(options[p]) : i # j => options[p][i] # options[p][j]

\* The handle that open_storages has left in the registry under name n: the
\* one of the last opener of that name opened so far.
LastOpened(p, n) ==
    CHOOSE i \in opened[p] :
        options[p][i] = n /\ \A j \in opened[p] : options[p][j] = n => j <= i

\* The handles the registry of p holds.
Registered(p) == {storages[p][n] : n \in DOMAIN storages[p]}

\* C20: at every point from open_storages on, the registry holds under each
\* name of an opened spec the handle of the last open() for that name: with
\* pairwise distinct names exactly the handles open() has returned, with
\* equal names not the earlier handle, which is overwritten.  close() is
\* never invoked twice on a handle nor on anything but a registry handle;
\* when main ends after open_storages, close() has been invoked exactly once
\* on every registry handle, so with distinct names on every handle ever
\* opened, and never on an overwritten handle.
C20_RegistryHoldsWhatIsClosed ==
    \A p \in Procs :
        /\ has_storages[p]
              => /\ DOMAIN storages[p] = {options[p][i] : i \in opened[p]}
                 /\ \A n \in DOMAIN storages[p] : storages[p][n] = LastOpened(p, n)
                 /\ DistinctNames(p) => Registered(p) = opened[p]
        /\ \A h \in 1..MaxStorages :
              /\ closeCalls[p][h] <= 1
              /\ closeCalls[p][h] = 1 => (h \in opened[p] /\ h \in Registered(p))
        /\ (MainEnded(p) /\ "open_storages" \in Range(calls[p]))
              => /\ \A h \in Registered(p) : closeCalls[p][h] = 1
                 /\ \A h \in opened[p] \ Registered(p) : closeCalls[p][h] = 0
                 /\ DistinctNames(p) => \A h \in opened[p] : closeCalls[p][h] = 1

\* Specs named "1", "2", "1" were opened and main has ended: the handle of
\* the first spec was overwritten and never closed, the other two were
\* closed once.
C20_Witness ==
    \E p \in Procs :
        /\ MainEnded(p)
        /\ options[p] = <<"1", "2", "1">>
        /\ opened[p] = {1, 2, 3}
        /\ closeCalls[p][1] = 0 /\ closeCalls[p][2] = 1 /\ closeCalls[p][3] = 1

====
